---- MODULE Spec2Model ----
(***************************************************************************)
(* Model of the seating optimizer of the wedding seating planner           *)
(* (utils/seatingAlgorithm.ts: optimizeSeating, groupGuestsByRelationship).*)
(* One call of optimizeSeating is run as a state machine: the grouping and *)
(* classification, one step per iteration of the knight-table loop, one    *)
(* step per iteration of the standard-table loop, one step per anchor of   *)
(* the merge loop, and the assembly of the result.                         *)
(*                                                                         *)
(* A guest is identified by its position in the input array; its id string *)
(* is the decimal form of that position, so ids are unique.  A text (a     *)
(* groupId, a knight group name, a key of the groups record) is a sequence *)
(* of characters.  The id domain holds no integer-like groupId, so the     *)
(* keys of the groups record enumerate in insertion order.                 *)
(***************************************************************************)
EXTENDS Integers, Sequences, FiniteSets, TLC

\* ------------------------------------------------------------------ bounds
MaxGuests == 3
MaxAmount == 2
MaxTableCapacity == 2
MaxKnightCount == 2
MaxKnightCapacity == 2
MaxIds == 4
MaxImport == 2
MaxEntries == 1
MaxConflicts == 2
MaxCallGuests == 2

\* ------------------------------------------------------------------ state
VARIABLES
    guests,            \* the input array (Guest[])
    _tables,           \* the caller's tables argument (_tables: Table[])
    config,            \* the OptimizationConfig of the call
    pc,                \* position of the call
    processedGroups,   \* let processedGroups
    knightCandidates,  \* let knightCandidates (sorted)
    groupIdx,          \* index of the group of the running for-of loop
    guestsToSeat,      \* let guestsToSeat of the running group
    tableAssignments,  \* the tableAssignments record, in key order
    tableCounter,      \* let tableCounter
    assignment,        \* const assignment (working map)
    standardTableIds,  \* merge phase: sorted ids
    mergedTableIds,    \* merge phase: Set of merged ids
    mergeI,            \* merge phase: loop index i (1-based)
    progress,          \* the calls of onProgress, in order
    result,            \* the returned OptimizationResult
    storeGuests,       \* the store's guests
    storeTables,       \* the store's tables
    conflicts,         \* the store's conflicts (pairs of guest ids)
    isRunning,         \* the store's optimizationProgress.isRunning
    idCounter,         \* number of ids that generateId has handed out
    storeOp,           \* the store action that ran last
    hpc,               \* position of StatusBar.handleOptimize
    guestsAtCall,      \* handleOptimize: ids of the guests handed to optimizeSeating
    sortedAlgorithmTables, \* handleOptimize: const sortedAlgorithmTables
    createdTableIds    \* handleOptimize: ids of the tables its addTable calls made

vars == <<guests, _tables, config, pc, processedGroups, knightCandidates, groupIdx,
          guestsToSeat, tableAssignments, tableCounter, assignment,
          standardTableIds, mergedTableIds, mergeI, progress, result,
          storeGuests, storeTables, conflicts, isRunning, idCounter, storeOp,
          hpc, guestsAtCall, sortedAlgorithmTables, createdTableIds>>

storeVars == <<storeGuests, storeTables, conflicts, isRunning, idCounter, storeOp>>

handlerVars == <<hpc, guestsAtCall, sortedAlgorithmTables, createdTableIds>>

callVars == <<guests, _tables, config, pc, processedGroups, knightCandidates, groupIdx,
              guestsToSeat, tableAssignments, tableCounter, assignment,
              standardTableIds, mergedTableIds, mergeI, progress, result>>

\* ------------------------------------------------------------------ texts
Sides == <<"groom", "bride", "both">>
Categories == <<"family", "friend", "colleague", "other">>

IsSpace(c) == c = " "

LowerOf(c) == CASE c = "F" -> "f" [] c = "G" -> "g" [] OTHER -> c

RECURSIVE TrimStart(_)
TrimStart(t) ==
    IF t # <<>> /\ IsSpace(Head(t)) THEN TrimStart(Tail(t)) ELSE t

RECURSIVE TrimEnd(_)
TrimEnd(t) ==
    IF t # <<>> /\ IsSpace(t[Len(t)]) THEN TrimEnd(SubSeq(t, 1, Len(t) - 1)) ELSE t

Trim(t) == TrimEnd(TrimStart(t))

ToLowerCase(t) == [i \in 1..Len(t) |-> LowerOf(t[i])]

normalize(s) == ToLowerCase(Trim(s))

IndividualKey(id) == <<"individual-", ToString(id)>>

\* ------------------------------------------------------------------ helpers
AmountOf(id) == IF guests[id].amount = 0 THEN 1 ELSE guests[id].amount

RECURSIVE getGuestsSize(_)
getGuestsSize(list) ==
    IF list = <<>> THEN 0 ELSE AmountOf(Head(list)) + getGuestsSize(Tail(list))

Range(s) == {s[i] : i \in 1..Len(s)}

Max(a, b) == IF a > b THEN a ELSE b

\* Array.prototype.sort is stable: the order of the indices of keys by
\* ascending key, equal keys in index order (insertion of index n after every
\* earlier index whose key is <= keys[n]).
RECURSIVE StableOrder(_, _)
StableOrder(keys, n) ==
    IF n = 0 THEN <<>>
    ELSE LET prev == StableOrder(keys, n - 1)
             pos  == Cardinality({j \in 1..Len(prev) : keys[prev[j]] <= keys[n]})
         IN  SubSeq(prev, 1, pos) \o <<n>> \o SubSeq(prev, pos + 1, Len(prev))

SortDescending(s, keys) ==
    LET ord == StableOrder([i \in 1..Len(s) |-> 0 - keys[i]], Len(s))
    IN  [i \in 1..Len(s) |-> s[ord[i]]]

SortAscending(s, keys) ==
    LET ord == StableOrder(keys, Len(s))
    IN  [i \in 1..Len(s) |-> s[ord[i]]]

\* The list without the members of chunk, order kept (findIndex + splice).
Without(list, chunk) == SelectSeq(list, LAMBDA x : x \notin Range(chunk))

\* ------------------------------------------------------------------ grouping
IndexOfKey(groups, key) ==
    IF \E i \in 1..Len(groups) : groups[i].groupId = key
    THEN CHOOSE i \in 1..Len(groups) : groups[i].groupId = key
    ELSE 0

\* First forEach: a guest with a groupId joins the entry of the trimmed id.
RECURSIVE AddGrouped(_, _, _)
AddGrouped(gs, i, groups) ==
    IF i > Len(gs) THEN groups
    ELSE IF gs[i].groupId = <<>> THEN AddGrouped(gs, i + 1, groups)
    ELSE LET key == Trim(gs[i].groupId)
             at  == IndexOfKey(groups, key)
         IN  IF at = 0
             THEN AddGrouped(gs, i + 1, Append(groups, [groupId |-> key, guests |-> <<i>>]))
             ELSE AddGrouped(gs, i + 1,
                      [groups EXCEPT ![at].guests = Append(@, i)])

\* Second forEach: groups[`individual-${id}`] = [guest]; an existing entry of
\* that key is overwritten in place.
RECURSIVE AddUngrouped(_, _, _)
AddUngrouped(gs, i, groups) ==
    IF i > Len(gs) THEN groups
    ELSE IF gs[i].groupId # <<>> THEN AddUngrouped(gs, i + 1, groups)
    ELSE LET key == IndividualKey(i)
             at  == IndexOfKey(groups, key)
         IN  IF at = 0
             THEN AddUngrouped(gs, i + 1, Append(groups, [groupId |-> key, guests |-> <<i>>]))
             ELSE AddUngrouped(gs, i + 1, [groups EXCEPT ![at].guests = <<i>>])

groupGuestsByRelationship(gs) == AddUngrouped(gs, 1, AddGrouped(gs, 1, <<>>))

\* ------------------------------------------------------------------ classification
Tally(list, field, value) ==
    getGuestsSize(SelectSeq(list, LAMBDA id : guests[id][field] = value))

RECURSIVE ReduceMaxKeepsTied(_, _, _, _)
ReduceMaxKeepsTied(names, counts, i, a) ==
    IF i > Len(names) THEN names[a]
    ELSE ReduceMaxKeepsTied(names, counts, i + 1, IF counts[a] >= counts[i] THEN a ELSE i)

\* Object.entries(counts).reduce((a, b) => a[1] > b[1] ? a : b)[0]
RECURSIVE ReduceMax(_, _, _, _)
ReduceMax(names, counts, i, a) ==
    IF i > Len(names) THEN names[a]
    ELSE ReduceMax(names, counts, i + 1, IF counts[a] > counts[i] THEN a ELSE i)

Dominant(list, field, names) ==
    ReduceMax(names, [i \in 1..Len(names) |-> Tally(list, field, names[i])], 2, 1)

knightTargetGroups ==
    [i \in 1..Len(config.knightGroupNames) |-> normalize(config.knightGroupNames[i])]

Classify(group) ==
    [groupId              |-> group.groupId,
     guests               |-> group.guests,
     size                 |-> getGuestsSize(group.guests),
     dominantSide         |-> Dominant(group.guests, "side", Sides),
     dominantCategory     |-> Dominant(group.guests, "category", Categories),
     isRequestedForKnight |-> normalize(group.groupId) \in Range(knightTargetGroups)]


\* ------------------------------------------------------------------ tables
NewTableKnightSized(id, side, category, capacity, isKnight) ==
    [id |-> id, guests |-> <<>>, side |-> side, category |-> category,
     capacity |-> config.knightConfig.capacity, isKnight |-> isKnight]

NewTable(id, side, category, capacity, isKnight) ==
    [id |-> id, guests |-> <<>>, side |-> side, category |-> category,
     capacity |-> capacity, isKnight |-> isKnight]

Occupancy(table) == getGuestsSize(table.guests)

SpaceOf(table) == table.capacity - Occupancy(table)

\* Position in tableAssignments of the entry with key `table-${id}`.
TableIndex(tables, id) == CHOOSE i \in 1..Len(tables) : tables[i].id = id

AssignAll(asg, list, tableId) ==
    [id \in DOMAIN asg \cup Range(list) |->
        IF id \in Range(list) THEN tableId ELSE asg[id]]

TableKey(id) == <<"table-", ToString(id)>>

GuestsAfterSeatingStamped(gs, list, tableId) ==
    [id \in DOMAIN gs |->
        IF id \in Range(list) THEN [gs[id] EXCEPT !.tableId = TableKey(tableId)]
        ELSE gs[id]]

\* The guest records after a seating loop (assignment[guest.id] = id;
\* table.guests.push(guest)): the loop writes the working map and the
\* table's list and no field of a guest.
GuestsAfterSeating(gs, list, tableId) == gs

RECURSIVE GreedyFillPrefix(_, _, _, _, _)
GreedyFillPrefix(list, i, chunk, chunkSpace, limit) ==
    IF i > Len(list) THEN chunk
    ELSE IF chunkSpace + AmountOf(list[i]) <= limit
         THEN GreedyFillPrefix(list, i + 1, Append(chunk, list[i]),
                               chunkSpace + AmountOf(list[i]), limit)
         ELSE chunk

\* The greedy loop over guestsToSeat: every guest that still fits the limit
\* joins the chunk, a guest that does not fit is passed over.
RECURSIVE GreedyFill(_, _, _, _, _)
GreedyFill(list, i, chunk, chunkSpace, limit) ==
    IF i > Len(list) THEN chunk
    ELSE IF chunkSpace + AmountOf(list[i]) <= limit
         THEN GreedyFill(list, i + 1, Append(chunk, list[i]),
                         chunkSpace + AmountOf(list[i]), limit)
         ELSE GreedyFill(list, i + 1, chunk, chunkSpace, limit)

ChunkForForced(list, space) ==
    LET chunk == GreedyFill(list, 1, <<>>, 0, space)
    IN  IF chunk = <<>> /\ list # <<>> THEN <<list[1]>> ELSE chunk

\* The chunk for an existing table with the given space, with the fallback
\* that takes the first guest when the loop took nobody and it fits.
ChunkFor(list, space) ==
    LET chunk == GreedyFill(list, 1, <<>>, 0, space)
    IN  IF chunk = <<>> /\ list # <<>> /\ AmountOf(list[1]) <= space
        THEN <<list[1]>> ELSE chunk

RECURSIVE NewTableFillWidenAny(_, _, _, _, _)
NewTableFillWidenAny(list, i, chunk, chunkSpace, capacity) ==
    IF i > Len(list) THEN [chunk |-> chunk, capacity |-> capacity]
    ELSE LET gSize == AmountOf(list[i])
             limit == config.tableCapacity
         IN  IF chunkSpace + gSize <= limit \/ gSize > limit
             THEN NewTableFillWidenAny(list, i + 1, Append(chunk, list[i]),
                      chunkSpace + gSize,
                      IF gSize > limit THEN gSize ELSE capacity)
             ELSE NewTableFillWidenAny(list, i + 1, chunk, chunkSpace, capacity)

\* The loop that fills a new split table: [chunk, capacity] after the loop.
RECURSIVE NewTableFill(_, _, _, _, _)
NewTableFill(list, i, chunk, chunkSpace, capacity) ==
    IF i > Len(list) THEN [chunk |-> chunk, capacity |-> capacity]
    ELSE LET gSize == AmountOf(list[i])
             limit == config.tableCapacity
         IN  IF chunkSpace + gSize <= limit \/ (chunk = <<>> /\ gSize > limit)
             THEN NewTableFill(list, i + 1, Append(chunk, list[i]), chunkSpace + gSize,
                               IF chunk = <<>> /\ gSize > limit THEN gSize ELSE capacity)
             ELSE NewTableFill(list, i + 1, chunk, chunkSpace, capacity)

\* The new split table's chunk and capacity, the safety check included.
NewTableChunk(list) ==
    LET filled == NewTableFill(list, 1, <<>>, 0, config.tableCapacity)
    IN  IF filled.chunk = <<>> /\ list # <<>>
        THEN [chunk |-> <<list[1]>>,
              capacity |-> Max(filled.capacity, AmountOf(list[1]))]
        ELSE filled


\* ------------------------------------------------------------------ inputs
\* The calls that are run.  Families of inputs keep the state space small:
\* calls without knight tables (every side, at most MaxGuests guests), calls
\* with knight tables (every category, one side), calls of MaxGuests + 1
\* guests in two named groups without knight tables (the smallest calls in
\* which a split tops up an existing table), calls on guests that are seated
\* already, calls of MaxGuests + 1 ungrouped guests at larger tables, and
\* calls with an invalid configuration.
NoGroup == <<>>

NoTable == <<>>

GuestLists(lengths, amounts, sides, categories, groupIds, tableIds) ==
    UNION {[1..n -> [amount : amounts, side : sides, category : categories,
                     groupId : groupIds, tableId : tableIds]] : n \in lengths}

KnightDisabled == [enabled |-> FALSE, count |-> 0, capacity |-> 20]

StandardLists ==
    GuestLists(0..MaxGuests, 1..MaxAmount, {"groom", "bride", "both"}, {"family"},
               {NoGroup, <<"f">>, <<"F", " ">>, IndividualKey(1)}, {NoTable})

StandardConfigs ==
    [tableCapacity : 1..MaxTableCapacity, knightConfig : {KnightDisabled},
     knightGroupNames : {<<>>}]

KnightLists ==
    GuestLists(0..MaxGuests, 1..MaxAmount, {"groom"}, {"family", "friend"},
               {NoGroup, <<"f">>, <<"F", " ">>}, {NoTable})

KnightConfigs ==
    [tableCapacity : 1..MaxTableCapacity,
     knightConfig : [enabled : {TRUE}, count : 1..MaxKnightCount,
                     capacity : 1..MaxKnightCapacity],
     knightGroupNames : {<<>>, << <<"F">> >>, << <<"g">> >>}]

SplitLists ==
    GuestLists({MaxGuests + 1}, 1..MaxAmount, {"groom", "bride"}, {"family"},
               {<<"f">>, <<"F", " ">>}, {NoTable})

SplitConfigs ==
    [tableCapacity : {MaxTableCapacity}, knightConfig : {KnightDisabled},
     knightGroupNames : {<<>>}]

\* Calls on guests that a former call has seated: the guests carry the
\* tableId of the store's tables, which are handed in as the tables argument.
StoreTableIds == {TableKey(0), TableKey(1)}

ReseatLists ==
    GuestLists(1..(MaxGuests - 1), {1}, {"groom"}, {"family"}, {NoGroup, <<"f">>},
               {NoTable} \cup StoreTableIds)

StoreTables(gs) ==
    [k \in 1..2 |->
        [id |-> TableKey(k - 1), number |-> k, capacity |-> MaxTableCapacity,
         assignedGuests |-> {i \in DOMAIN gs : gs[i].tableId = TableKey(k - 1)}]]

\* Calls of MaxGuests or MaxGuests + 1 ungrouped guests of any side with
\* tables of MaxTableCapacity + 1 seats (the smallest calls in which two open
\* tables of different space can take the same guest, and in which three
\* tables fit into one).
GapLists ==
    GuestLists({MaxGuests, MaxGuests + 1}, 1..MaxAmount, {"groom", "bride", "both"}, {"family"},
               {NoGroup}, {NoTable})

GapConfigs ==
    [tableCapacity : {MaxTableCapacity + 1}, knightConfig : {KnightDisabled},
     knightGroupNames : {<<>>}]

\* Calls with a configuration that no seating can honour: a standard
\* capacity that is not positive, knight tables of a capacity that is not
\* positive, or a negative number of knight tables.
NotPositive == {0, -1}

InvalidConfigs ==
    {[tableCapacity |-> c, knightConfig |-> KnightDisabled, knightGroupNames |-> <<>>] :
        c \in NotPositive}
    \cup {[tableCapacity |-> MaxTableCapacity,
           knightConfig |-> [enabled |-> TRUE, count |-> 1, capacity |-> c],
           knightGroupNames |-> <<>>] : c \in NotPositive}
    \cup {[tableCapacity |-> MaxTableCapacity,
           knightConfig |-> [enabled |-> TRUE, count |-> -1, capacity |-> MaxKnightCapacity],
           knightGroupNames |-> <<>>]}

InvalidLists ==
    GuestLists(0..(MaxGuests - 1), 1..MaxAmount, {"groom"}, {"friend"},
               {NoGroup, <<"f">>}, {NoTable})

NoResult == [assignments |-> <<>>, tables |-> <<>>]

\* The store as created (initialState, optimizationProgress) and no
\* handleOptimize under way.
InitStore ==
    /\ storeGuests = <<>>
    /\ storeTables = <<>>
    /\ conflicts = <<>>
    /\ isRunning = FALSE
    /\ idCounter = 0
    /\ storeOp = "create"
    /\ hpc = "idle"
    /\ guestsAtCall = <<>>
    /\ sortedAlgorithmTables = <<>>
    /\ createdTableIds = <<>>

\* The locals of a call that has not begun.
InitLocals ==
    /\ pc = "start"
    /\ processedGroups = <<>>
    /\ knightCandidates = <<>>
    /\ groupIdx = 0
    /\ guestsToSeat = <<>>
    /\ tableAssignments = <<>>
    /\ tableCounter = 0
    /\ assignment = <<>>
    /\ standardTableIds = <<>>
    /\ mergedTableIds = {}
    /\ mergeI = 0
    /\ progress = <<>>
    /\ result = NoResult

Init ==
    /\ \/ guests \in StandardLists /\ config \in StandardConfigs /\ _tables = <<>>
       \/ guests \in KnightLists /\ config \in KnightConfigs /\ _tables = <<>>
       \/ guests \in SplitLists /\ config \in SplitConfigs /\ _tables = <<>>
       \/ guests \in ReseatLists /\ config \in StandardConfigs
             /\ _tables = StoreTables(guests)
       \/ guests \in GapLists /\ config \in GapConfigs /\ _tables = <<>>
       \/ guests \in InvalidLists /\ config \in InvalidConfigs /\ _tables = <<>>
    /\ InitLocals
    /\ InitStore

\* ------------------------------------------------------------------ progress
\* A call of onProgress(percent, message).  The messages are the labels of
\* the phases: "groups" (grouping), "knights" (knight tables), "standard"
\* (standard tables), "split" (a group of the pool is done), "merge"
\* (consolidation) and "done".
onProgress(percent, message) ==
    Append(progress, [percent |-> percent, message |-> message])

\* ------------------------------------------------------------------ steps 1, 2
\* Grouping and classification.
Begin ==
    /\ pc = "start"
    /\ progress' = onProgress(10, "groups")
    /\ processedGroups' =
           LET originalGroups == groupGuestsByRelationship(guests)
           IN  [i \in 1..Len(originalGroups) |-> Classify(originalGroups[i])]
    /\ pc' = IF config.knightConfig.enabled /\ config.knightConfig.count > 0
             THEN "knightSetup" ELSE "standardStart"
    /\ UNCHANGED <<guests, _tables, config, knightCandidates, groupIdx, guestsToSeat,
                   tableAssignments, tableCounter, assignment, standardTableIds,
                   mergedTableIds, mergeI, result>>
    /\ UNCHANGED <<storeVars, handlerVars>>

\* ------------------------------------------------------------------ phase A
Sizes(groups) == [i \in 1..Len(groups) |-> groups[i].size]

\* The candidates: the requested groups, or without any the friend groups.
KnightCandidatesOf(groups) ==
    LET requested == SelectSeq(groups, LAMBDA g : g.isRequestedForKnight)
    IN  IF requested = <<>>
        THEN SelectSeq(groups, LAMBDA g : g.dominantCategory = "friend")
        ELSE requested

PoolKeepsCandidates(groups) == groups

\* The pool that is left for the standard tables.
PoolWithoutCandidates(groups) ==
    IF SelectSeq(groups, LAMBDA g : g.isRequestedForKnight) = <<>>
    THEN SelectSeq(groups, LAMBDA g : g.dominantCategory # "friend")
    ELSE SelectSeq(groups, LAMBDA g : ~g.isRequestedForKnight)

\* The knight tables are created and the candidates chosen and sorted.
KnightSetup ==
    /\ pc = "knightSetup"
    /\ progress' = onProgress(20, "knights")
    /\ tableAssignments' =
           [i \in 1..config.knightConfig.count |->
               NewTable(tableCounter + i - 1, "", "", config.knightConfig.capacity, TRUE)]
    /\ tableCounter' = tableCounter + config.knightConfig.count
    /\ LET cands  == KnightCandidatesOf(processedGroups)
           sorted == SortDescending(cands, Sizes(cands))
       IN  /\ knightCandidates' = sorted
           /\ processedGroups' = PoolWithoutCandidates(processedGroups)
           /\ IF sorted = <<>>
              THEN pc' = "standardStart" /\ groupIdx' = 0 /\ guestsToSeat' = <<>>
              ELSE pc' = "knight" /\ groupIdx' = 1 /\ guestsToSeat' = sorted[1].guests
    /\ UNCHANGED <<guests, _tables, config, assignment, standardTableIds, mergedTableIds,
                   mergeI, result>>
    /\ UNCHANGED <<storeVars, handlerVars>>

BestKnightFirstOnly ==
    IF SpaceOf(tableAssignments[1]) > 0 THEN 1 ELSE 0

\* The knight table with the largest remaining space > 0, the first of equals
\* (0 when no knight table has space).
BestKnightIndex ==
    LET n       == config.knightConfig.count
        open    == {i \in 1..n : SpaceOf(tableAssignments[i]) > 0}
        largest == {i \in open : \A j \in open :
                        SpaceOf(tableAssignments[j]) <= SpaceOf(tableAssignments[i])}
    IN  IF open = {} THEN 0 ELSE CHOOSE i \in largest : \A j \in largest : i <= j

KnightNextGroupStays ==
    UNCHANGED <<pc, groupIdx, guestsToSeat>>

\* The for-of loop over knightCandidates moves on (the while loop has ended).
KnightNextGroup ==
    /\ groupIdx' = groupIdx + 1
    /\ IF groupIdx < Len(knightCandidates)
       THEN pc' = "knight" /\ guestsToSeat' = knightCandidates[groupIdx + 1].guests
       ELSE pc' = "standardStart" /\ guestsToSeat' = <<>>

\* A chunk of the group is seated at the best knight table.
KnightSeat ==
    /\ pc = "knight"
    /\ BestKnightIndex # 0
    /\ LET best  == BestKnightIndex
           table == tableAssignments[best]
           group == knightCandidates[groupIdx]
           chunk == ChunkFor(guestsToSeat, SpaceOf(table))
           rest  == Without(guestsToSeat, chunk)
       IN  /\ chunk # <<>>
           /\ assignment' = AssignAll(assignment, chunk, table.id)
           /\ guests' = GuestsAfterSeating(guests, chunk, table.id)
           /\ tableAssignments' =
                  [tableAssignments EXCEPT ![best] =
                      [table EXCEPT
                          !.guests   = table.guests \o chunk,
                          !.side     = IF table.guests = <<>> THEN group.dominantSide ELSE @,
                          !.category = IF table.guests = <<>> THEN group.dominantCategory ELSE @]]
           /\ IF rest # <<>>
              THEN guestsToSeat' = rest /\ UNCHANGED <<pc, groupIdx>>
              ELSE KnightNextGroup
    /\ UNCHANGED <<_tables, config, processedGroups, knightCandidates, tableCounter,
                   standardTableIds, mergedTableIds, mergeI, progress, result>>
    /\ UNCHANGED <<storeVars, handlerVars>>

\* No guest of the group fits the best knight table: break.
KnightNoFit ==
    /\ pc = "knight"
    /\ BestKnightIndex # 0
    /\ ChunkFor(guestsToSeat, SpaceOf(tableAssignments[BestKnightIndex])) = <<>>
    /\ KnightNextGroup
    /\ UNCHANGED <<guests, _tables, config, processedGroups, knightCandidates, tableAssignments,
                   tableCounter, assignment, standardTableIds, mergedTableIds, mergeI,
                   progress, result>>
    /\ UNCHANGED <<storeVars, handlerVars>>

\* No knight table has space: the rest of the group goes back to the pool.
KnightPushBack ==
    /\ pc = "knight"
    /\ BestKnightIndex = 0
    /\ processedGroups' =
           IF guestsToSeat # <<>>
           THEN Append(processedGroups,
                    [knightCandidates[groupIdx] EXCEPT
                        !.guests = guestsToSeat, !.size = getGuestsSize(guestsToSeat)])
           ELSE processedGroups
    /\ KnightNextGroup
    /\ UNCHANGED <<guests, _tables, config, knightCandidates, tableAssignments, tableCounter,
                   assignment, standardTableIds, mergedTableIds, mergeI, progress, result>>
    /\ UNCHANGED <<storeVars, handlerVars>>


\* ------------------------------------------------------------------ standard tables
\* The pool is sorted, largest group first.
StandardStart ==
    /\ pc = "standardStart"
    /\ progress' = onProgress(40, "standard")
    /\ LET sorted == SortDescending(processedGroups, Sizes(processedGroups))
       IN  /\ processedGroups' = sorted
           /\ IF sorted = <<>>
              THEN pc' = "mergeStart" /\ groupIdx' = 0 /\ guestsToSeat' = <<>>
              ELSE pc' = "standard" /\ groupIdx' = 1 /\ guestsToSeat' = sorted[1].guests
    /\ UNCHANGED <<guests, _tables, config, knightCandidates, tableAssignments, tableCounter,
                   assignment, standardTableIds, mergedTableIds, mergeI, result>>
    /\ UNCHANGED <<storeVars, handlerVars>>

\* let groupSize: the size of what is left of the running group.
groupSize == getGuestsSize(guestsToSeat)

currentTablesWithKnights == [i \in 1..Len(tableAssignments) |-> i]

\* Positions of the standard tables, in key order.
currentStandardTables ==
    SelectSeq([i \in 1..Len(tableAssignments) |-> i],
              LAMBDA i : ~tableAssignments[i].isKnight)

isSideMatchAny(table, group) == TRUE

isSideMatch(table, group) ==
    \/ table.side = group.dominantSide
    \/ table.side = "both"
    \/ table.guests = <<>>

\* The first position of list that satisfies Good, 0 when there is none.
FirstOf(list, Good(_)) ==
    IF \E k \in 1..Len(list) : Good(list[k])
    THEN list[CHOOSE k \in 1..Len(list) :
                  Good(list[k]) /\ \A m \in 1..(k - 1) : ~Good(list[m])]
    ELSE 0

FirstFitIndex ==
    LET group == processedGroups[groupIdx]
        fits(i) == /\ SpaceOf(tableAssignments[i]) >= groupSize
                   /\ isSideMatch(tableAssignments[i], group)
    IN  FirstOf(currentStandardTables, fits)

\* The standard table with the smallest space that takes the whole group,
\* the first of equals (0 when there is none).
BestFitIndex ==
    LET group == processedGroups[groupIdx]
        fits(i) == /\ SpaceOf(tableAssignments[i]) >= groupSize
                   /\ isSideMatch(tableAssignments[i], group)
        best(i) == /\ fits(i)
                   /\ \A k \in 1..Len(currentStandardTables) :
                          fits(currentStandardTables[k]) =>
                              SpaceOf(tableAssignments[i])
                                  <= SpaceOf(tableAssignments[currentStandardTables[k]])
    IN  FirstOf(currentStandardTables, best)

\* The fullest standard table with space > 0 and a matching side: the first
\* such table of the tables sorted by occupancy, fullest first.
BestPartialIndex ==
    LET group  == processedGroups[groupIdx]
        sorted == SortDescending(currentStandardTables,
                      [k \in 1..Len(currentStandardTables) |->
                          Occupancy(tableAssignments[currentStandardTables[k]])])
        good(i) == /\ SpaceOf(tableAssignments[i]) > 0
                   /\ isSideMatch(tableAssignments[i], group)
    IN  FirstOf(sorted, good)

GroupProgressUnscaled(index, length) == 40 + (index * 50)

\* 40 + Math.floor((processedGroups.indexOf(group) / processedGroups.length) * 50)
\* (below 50 groups the floored floating-point product is the integer quotient).
GroupProgress(index, length) == 40 + ((index * 50) \div length)

\* The while loop goes on with rest, or has ended and the for-of loop moves on.
StandardContinue(rest, ended) ==
    IF rest # <<>> /\ ~ended
    THEN guestsToSeat' = rest /\ UNCHANGED <<pc, groupIdx, progress>>
    ELSE /\ progress' = onProgress(GroupProgress(groupIdx - 1, Len(processedGroups)),
                                    "split")
         /\ groupIdx' = groupIdx + 1
         /\ IF groupIdx < Len(processedGroups)
            THEN pc' = "standard" /\ guestsToSeat' = processedGroups[groupIdx + 1].guests
            ELSE pc' = "mergeStart" /\ guestsToSeat' = <<>>

\* The whole rest of the group is seated at an existing table.
WholeFit ==
    /\ pc = "standard"
    /\ BestFitIndex # 0
    /\ LET best  == BestFitIndex
           table == tableAssignments[best]
           group == processedGroups[groupIdx]
       IN  /\ assignment' = AssignAll(assignment, guestsToSeat, table.id)
           /\ guests' = GuestsAfterSeating(guests, guestsToSeat, table.id)
           /\ tableAssignments' =
                  [tableAssignments EXCEPT ![best] =
                      [table EXCEPT
                          !.guests   = table.guests \o guestsToSeat,
                          !.side     = IF table.guests = <<>> THEN group.dominantSide ELSE @,
                          !.category = IF table.guests = <<>> THEN group.dominantCategory ELSE @]]
    /\ StandardContinue(<<>>, FALSE)
    /\ UNCHANGED <<_tables, config, processedGroups, knightCandidates, tableCounter,
                   standardTableIds, mergedTableIds, mergeI, result>>
    /\ UNCHANGED <<storeVars, handlerVars>>

\* A new table takes the whole rest of the group.
NewTableWhole ==
    /\ pc = "standard"
    /\ BestFitIndex = 0
    /\ groupSize <= config.tableCapacity
    /\ LET group == processedGroups[groupIdx]
           table == NewTable(tableCounter, group.dominantSide, group.dominantCategory,
                             config.tableCapacity, FALSE)
       IN  /\ tableCounter' = tableCounter + 1
           /\ assignment' = AssignAll(assignment, guestsToSeat, table.id)
           /\ guests' = GuestsAfterSeating(guests, guestsToSeat, table.id)
           /\ tableAssignments' =
                  Append(tableAssignments, [table EXCEPT !.guests = guestsToSeat])
    /\ StandardContinue(<<>>, FALSE)
    /\ UNCHANGED <<_tables, config, processedGroups, knightCandidates,
                   standardTableIds, mergedTableIds, mergeI, result>>
    /\ UNCHANGED <<storeVars, handlerVars>>

PartialChunkNever == <<>>

\* The chunk that the fullest matching table takes (<<>> without such a table).
PartialChunk ==
    IF BestPartialIndex = 0 THEN <<>>
    ELSE ChunkFor(guestsToSeat, SpaceOf(tableAssignments[BestPartialIndex]))

\* Split: a chunk of the group tops up an existing table.
SplitExisting ==
    /\ pc = "standard"
    /\ BestFitIndex = 0
    /\ groupSize > config.tableCapacity
    /\ PartialChunk # <<>>
    /\ LET best  == BestPartialIndex
           table == tableAssignments[best]
           chunk == PartialChunk
       IN  /\ assignment' = AssignAll(assignment, chunk, table.id)
           /\ guests' = GuestsAfterSeating(guests, chunk, table.id)
           /\ tableAssignments' =
                  [tableAssignments EXCEPT ![best].guests = table.guests \o chunk]
           /\ StandardContinue(Without(guestsToSeat, chunk), FALSE)
    /\ UNCHANGED <<_tables, config, processedGroups, knightCandidates, tableCounter,
                   standardTableIds, mergedTableIds, mergeI, result>>
    /\ UNCHANGED <<storeVars, handlerVars>>

\* Split: a new table takes a chunk of the group (widened for an oversized
\* first guest); with an empty chunk the loop guard breaks the while loop.
SplitNew ==
    /\ pc = "standard"
    /\ BestFitIndex = 0
    /\ groupSize > config.tableCapacity
    /\ PartialChunk = <<>>
    /\ LET group  == processedGroups[groupIdx]
           filled == NewTableChunk(guestsToSeat)
           table  == [NewTable(tableCounter, group.dominantSide, group.dominantCategory,
                               filled.capacity, FALSE)
                         EXCEPT !.guests = filled.chunk]
       IN  /\ tableCounter' = tableCounter + 1
           /\ tableAssignments' = Append(tableAssignments, table)
           /\ assignment' = AssignAll(assignment, filled.chunk, table.id)
           /\ guests' = GuestsAfterSeating(guests, filled.chunk, table.id)
           /\ StandardContinue(Without(guestsToSeat, filled.chunk), filled.chunk = <<>>)
    /\ UNCHANGED <<_tables, config, processedGroups, knightCandidates,
                   standardTableIds, mergedTableIds, mergeI, result>>
    /\ UNCHANGED <<storeVars, handlerVars>>

\* ------------------------------------------------------------------ phase C
\* The standard tables are listed, emptiest first.
MergeStart ==
    /\ pc = "mergeStart"
    /\ progress' = onProgress(90, "merge")
    /\ standardTableIds' =
           LET ids == [k \in 1..Len(currentStandardTables) |->
                          tableAssignments[currentStandardTables[k]].id]
           IN  SortAscending(ids,
                   [k \in 1..Len(ids) |->
                       Occupancy(tableAssignments[currentStandardTables[k]])])
    /\ mergedTableIds' = {}
    /\ mergeI' = 1
    /\ pc' = "merge"
    /\ UNCHANGED <<guests, _tables, config, processedGroups, knightCandidates, groupIdx,
                   guestsToSeat, tableAssignments, tableCounter, assignment, result>>
    /\ UNCHANGED <<storeVars, handlerVars>>

TableOf(id) == tableAssignments[TableIndex(tableAssignments, id)]

PartnerOfAnySize(i) ==
    LET idA == standardTableIds[i]
        free(j) == standardTableIds[j] \notin mergedTableIds
    IN  IF idA \in mergedTableIds \/ Occupancy(TableOf(idA)) >= TableOf(idA).capacity
        THEN 0
        ELSE FirstOf([k \in 1..(Len(standardTableIds) - i) |-> i + k], free)

\* The partner of the anchor at position i: the first later id, not merged
\* away, whose table fits into the anchor (0 when there is none, or when the
\* anchor is merged away or full).
PartnerOf(i) ==
    LET idA == standardTableIds[i]
    IN  IF idA \in mergedTableIds THEN 0
        ELSE LET tableA == TableOf(idA)
                 sizeA  == Occupancy(tableA)
                 fits(j) == /\ standardTableIds[j] \notin mergedTableIds
                            /\ sizeA + Occupancy(TableOf(standardTableIds[j]))
                                   <= tableA.capacity
             IN  IF sizeA >= tableA.capacity THEN 0
                 ELSE FirstOf([k \in 1..(Len(standardTableIds) - i) |-> i + k], fits)

MergeIntoKeepB(tables, idA, idB) ==
    LET a == TableIndex(tables, idA)
        b == TableIndex(tables, idB)
    IN  [tables EXCEPT ![a].guests = @ \o tables[b].guests, ![a].side = "both"]

MergeIntoKeepSide(tables, idA, idB) ==
    LET a == TableIndex(tables, idA)
        b == TableIndex(tables, idB)
        merged == [tables EXCEPT ![a].guests = @ \o tables[b].guests]
    IN  SelectSeq(merged, LAMBDA t : t.id # idB)

\* B's guests join A, A's side becomes both, B's entry is deleted.
MergeInto(tables, idA, idB) ==
    LET a == TableIndex(tables, idA)
        b == TableIndex(tables, idB)
        merged == [tables EXCEPT ![a].guests = @ \o tables[b].guests, ![a].side = "both"]
    IN  SelectSeq(merged, LAMBDA t : t.id # idB)

\* The anchor is merged away or full, or has no partner: next anchor.
MergeSkip ==
    /\ pc = "merge"
    /\ mergeI <= Len(standardTableIds)
    /\ PartnerOf(mergeI) = 0
    /\ mergeI' = mergeI + 1
    /\ UNCHANGED <<guests, _tables, config, pc, processedGroups, knightCandidates, groupIdx,
                   guestsToSeat, tableAssignments, tableCounter, assignment,
                   standardTableIds, mergedTableIds, progress, result>>
    /\ UNCHANGED <<storeVars, handlerVars>>

MergeTablesNoBreak ==
    /\ pc = "merge"
    /\ mergeI <= Len(standardTableIds)
    /\ PartnerOf(mergeI) # 0
    /\ LET idA == standardTableIds[mergeI]
           idB == standardTableIds[PartnerOf(mergeI)]
       IN  /\ tableAssignments' = MergeInto(tableAssignments, idA, idB)
           /\ mergedTableIds' = mergedTableIds \cup {idB}
    /\ UNCHANGED <<guests, _tables, config, pc, processedGroups, knightCandidates, groupIdx,
                   guestsToSeat, tableCounter, assignment, standardTableIds,
                   mergeI, progress, result>>
    /\ UNCHANGED <<storeVars, handlerVars>>

\* Table B is merged into the anchor A and deleted.
MergeTables ==
    /\ pc = "merge"
    /\ mergeI <= Len(standardTableIds)
    /\ PartnerOf(mergeI) # 0
    /\ LET idA == standardTableIds[mergeI]
           idB == standardTableIds[PartnerOf(mergeI)]
       IN  /\ tableAssignments' = MergeInto(tableAssignments, idA, idB)
           /\ mergedTableIds' = mergedTableIds \cup {idB}
    /\ mergeI' = mergeI + 1
    /\ UNCHANGED <<guests, _tables, config, pc, processedGroups, knightCandidates, groupIdx,
                   guestsToSeat, tableCounter, assignment, standardTableIds,
                   progress, result>>
    /\ UNCHANGED <<storeVars, handlerVars>>

\* ------------------------------------------------------------------ result
\* finalAssignment[g.id] = id for the tables in key order: a later table wins.
FinalAssignment(tables) ==
    LET seated == UNION {Range(tables[i].guests) : i \in 1..Len(tables)}
        last(id) == CHOOSE i \in 1..Len(tables) :
                        /\ id \in Range(tables[i].guests)
                        /\ \A j \in (i + 1)..Len(tables) : id \notin Range(tables[j].guests)
    IN  [id \in seated |-> tables[last(id)].id]

Finish ==
    /\ pc = "merge"
    /\ mergeI > Len(standardTableIds)
    /\ progress' = onProgress(100, "done")
    /\ result' = [assignments |-> FinalAssignment(tableAssignments),
                  tables |-> tableAssignments]
    /\ pc' = "done"
    /\ UNCHANGED <<guests, _tables, config, processedGroups, knightCandidates, groupIdx,
                   guestsToSeat, tableAssignments, tableCounter, assignment,
                   standardTableIds, mergedTableIds, mergeI>>
    /\ UNCHANGED <<storeVars, handlerVars>>

\* ------------------------------------------------------------------ specification
Next ==
    \/ Begin
    \/ KnightSetup
    \/ KnightSeat
    \/ KnightNoFit
    \/ KnightPushBack
    \/ StandardStart
    \/ WholeFit
    \/ NewTableWhole
    \/ SplitExisting
    \/ SplitNew
    \/ MergeStart
    \/ MergeSkip
    \/ MergeTables
    \/ Finish

Spec == Init /\ [][Next]_vars

\* ------------------------------------------------------------------ classification alone
\* The classification of one named group whose members take every side,
\* every category and every amount: the calls are run up to the end of the
\* classification.
ClassifyLists ==
    GuestLists(1..MaxGuests, 1..MaxAmount, {"groom", "bride", "both"},
               {"family", "friend", "colleague", "other"}, {<<"f">>}, {NoTable})

InitClassify ==
    /\ guests \in ClassifyLists
    /\ config \in SplitConfigs
    /\ _tables = <<>>
    /\ InitLocals
    /\ InitStore

NextClassify == Begin

SpecClassify == InitClassify /\ [][NextClassify]_vars


\* ------------------------------------------------------------------ store
\* The zustand store of seatingStore.ts.  Ids are what generateId returns:
\* a random text, taken here to be one that no guest or table has had.
Unset == 0

generateId == idCounter + 1

\* The ids that an action can be called with: those of guests and tables
\* that exist or have existed.
KnownIds == 1..idCounter

GuestData ==
    [amount : {1}, side : {"groom", "bride"}, category : {"family"}, groupId : {NoGroup}]

NewGuest(id, guestData) ==
    [id |-> id, amount |-> guestData.amount, side |-> guestData.side,
     category |-> guestData.category, groupId |-> guestData.groupId,
     tableId |-> Unset, conflictsWith |-> <<>>]

HasId(list, id) == \E i \in 1..Len(list) : list[i].id = id

\* list.find(x => x.id === id), for an id that list has.
Find(list, id) == list[CHOOSE i \in 1..Len(list) :
                           list[i].id = id /\ \A k \in 1..(i - 1) : list[k].id # id]

WithoutId(ids, id) == SelectSeq(ids, LAMBDA x : x # id)

addGuest ==
    /\ idCounter < MaxIds
    /\ \E guestData \in GuestData :
           storeGuests' = Append(storeGuests, NewGuest(generateId, guestData))
    /\ idCounter' = idCounter + 1
    /\ storeOp' = "addGuest"
    /\ UNCHANGED <<storeTables, conflicts, isRunning, callVars, handlerVars>>

importGuests ==
    /\ \E n \in 1..MaxImport : \E guestsData \in [1..n -> GuestData] :
           /\ idCounter + n <= MaxIds
           /\ storeGuests' = storeGuests \o
                  [i \in 1..n |-> NewGuest(idCounter + i, guestsData[i])]
           /\ idCounter' = idCounter + n
    /\ storeOp' = "importGuests"
    /\ UNCHANGED <<storeTables, conflicts, isRunning, callVars, handlerVars>>

removeGuestKeepsSeat(ts, id) == ts

\* tables: state.tables.map(t => ({...t, assignedGuests: filter(gId !== id)}))
removeGuestFromTables(ts, id) ==
    [i \in 1..Len(ts) |->
        [ts[i] EXCEPT !.assignedGuests = WithoutId(ts[i].assignedGuests, id)]]

removeGuest ==
    /\ \E id \in KnownIds :
           /\ storeGuests' = SelectSeq(storeGuests, LAMBDA g : g.id # id)
           /\ conflicts' = SelectSeq(conflicts, LAMBDA c : c[1] # id /\ c[2] # id)
           /\ storeTables' = removeGuestFromTables(storeTables, id)
    /\ storeOp' = "removeGuest"
    /\ UNCHANGED <<isRunning, idCounter, callVars, handlerVars>>

tableAdded(ts, id, capacity) ==
    Append(ts, [id |-> id, number |-> Len(ts) + 1, capacity |-> capacity,
                assignedGuests |-> <<>>])

addTable ==
    /\ idCounter < MaxIds
    /\ \E capacity \in 1..MaxTableCapacity :
           storeTables' = tableAdded(storeTables, generateId, capacity)
    /\ idCounter' = idCounter + 1
    /\ storeOp' = "addTable"
    /\ UNCHANGED <<storeGuests, conflicts, isRunning, callVars, handlerVars>>

\* The tables after removeTable(id): filtered and renumbered.
tablesAfterRemove(ts, id) ==
    LET kept == SelectSeq(ts, LAMBDA t : t.id # id)
    IN  [i \in 1..Len(kept) |-> [kept[i] EXCEPT !.number = i]]

guestsAfterRemove(gs, id) ==
    [i \in 1..Len(gs) |->
        IF gs[i].tableId = id THEN [gs[i] EXCEPT !.tableId = Unset] ELSE gs[i]]

removeTable ==
    /\ \E id \in KnownIds :
           IF HasId(storeTables, id)
           THEN /\ storeTables' = tablesAfterRemove(storeTables, id)
                /\ storeGuests' = guestsAfterRemove(storeGuests, id)
           ELSE UNCHANGED <<storeTables, storeGuests>>
    /\ storeOp' = "removeTable"
    /\ UNCHANGED <<conflicts, isRunning, idCounter, callVars, handlerVars>>

\* unassignGuest(guestId) runs its set(): the guest is in the store and seated.
Unassigns(gs, guestId) == HasId(gs, guestId) /\ Find(gs, guestId).tableId # Unset

guestsAfterUnassign(gs, guestId) ==
    IF Unassigns(gs, guestId)
    THEN [i \in 1..Len(gs) |->
             IF gs[i].id = guestId THEN [gs[i] EXCEPT !.tableId = Unset] ELSE gs[i]]
    ELSE gs

tablesAfterUnassign(ts, gs, guestId) ==
    IF Unassigns(gs, guestId)
    THEN [i \in 1..Len(ts) |->
             IF ts[i].id = Find(gs, guestId).tableId
             THEN [ts[i] EXCEPT !.assignedGuests = WithoutId(@, guestId)]
             ELSE ts[i]]
    ELSE ts

unassignGuest ==
    /\ \E guestId \in KnownIds :
           /\ storeGuests' = guestsAfterUnassign(storeGuests, guestId)
           /\ storeTables' = tablesAfterUnassign(storeTables, storeGuests, guestId)
    /\ storeOp' = "unassignGuest"
    /\ UNCHANGED <<conflicts, isRunning, idCounter, callVars, handlerVars>>

\* assignGuestToTable(guestId, tableId) gets past its two early returns.
Assigns(guestId, tableId) ==
    /\ HasId(storeTables, tableId)
    /\ HasId(storeGuests, guestId)
    /\ Len(Find(storeTables, tableId).assignedGuests) < Find(storeTables, tableId).capacity

assignGuestToTable ==
    /\ \E guestId, tableId \in KnownIds :
           IF Assigns(guestId, tableId)
           THEN LET gs == guestsAfterUnassign(storeGuests, guestId)
                    ts == tablesAfterUnassign(storeTables, storeGuests, guestId)
                IN  /\ storeGuests' =
                           [i \in 1..Len(gs) |->
                               IF gs[i].id = guestId
                               THEN [gs[i] EXCEPT !.tableId = tableId] ELSE gs[i]]
                    /\ storeTables' =
                           [i \in 1..Len(ts) |->
                               IF ts[i].id = tableId
                               THEN [ts[i] EXCEPT !.assignedGuests = Append(@, guestId)]
                               ELSE ts[i]]
           ELSE UNCHANGED <<storeGuests, storeTables>>
    /\ storeOp' = "assignGuestToTable"
    /\ UNCHANGED <<conflicts, isRunning, idCounter, callVars, handlerVars>>

conflictExists(guest1Id, guest2Id) ==
    \E i \in 1..Len(conflicts) :
        \/ conflicts[i] = <<guest1Id, guest2Id>>
        \/ conflicts[i] = <<guest2Id, guest1Id>>

addConflict ==
    /\ \A g \in Range(storeGuests) : Len(g.conflictsWith) < MaxConflicts
    /\ \E guest1Id, guest2Id \in KnownIds :
           IF guest1Id = guest2Id \/ conflictExists(guest1Id, guest2Id)
           THEN UNCHANGED <<conflicts, storeGuests>>
           ELSE /\ conflicts' = Append(conflicts, <<guest1Id, guest2Id>>)
                /\ storeGuests' =
                       [i \in 1..Len(storeGuests) |->
                           IF storeGuests[i].id = guest1Id
                           THEN [storeGuests[i] EXCEPT !.conflictsWith = Append(@, guest2Id)]
                           ELSE IF storeGuests[i].id = guest2Id
                           THEN [storeGuests[i] EXCEPT !.conflictsWith = Append(@, guest1Id)]
                           ELSE storeGuests[i]]
    /\ storeOp' = "addConflict"
    /\ UNCHANGED <<storeTables, isRunning, idCounter, callVars, handlerVars>>

removeConflict ==
    /\ \E guest1Id, guest2Id \in KnownIds :
           /\ conflicts' =
                  SelectSeq(conflicts,
                            LAMBDA c : ~(c = <<guest1Id, guest2Id>> \/ c = <<guest2Id, guest1Id>>))
           /\ storeGuests' =
                  [i \in 1..Len(storeGuests) |->
                      IF storeGuests[i].id = guest1Id
                      THEN [storeGuests[i] EXCEPT !.conflictsWith = WithoutId(@, guest2Id)]
                      ELSE IF storeGuests[i].id = guest2Id
                      THEN [storeGuests[i] EXCEPT !.conflictsWith = WithoutId(@, guest1Id)]
                      ELSE storeGuests[i]]
    /\ storeOp' = "removeConflict"
    /\ UNCHANGED <<storeTables, isRunning, idCounter, callVars, handlerVars>>

\* The assignments object as its entries <<guestId, tableId>>, in insertion
\* order, and assignments[guestId] (Unset for undefined).
Lookup(entries, guestId) ==
    IF \E k \in 1..Len(entries) : entries[k][1] = guestId
    THEN entries[CHOOSE k \in 1..Len(entries) : entries[k][1] = guestId][2]
    ELSE Unset

\* const updatedTables: every table of the store with the guest ids of the
\* entries that name it.
updatedTables(ts, entries) ==
    [i \in 1..Len(ts) |->
        LET mine == SelectSeq(entries, LAMBDA e : e[2] = ts[i].id)
        IN  [ts[i] EXCEPT !.assignedGuests = [k \in 1..Len(mine) |-> mine[k][1]]]]

\* const updatedGuests: tableId: assignments[g.id] || undefined
updatedGuests(gs, entries) ==
    [i \in 1..Len(gs) |-> [gs[i] EXCEPT !.tableId = Lookup(entries, gs[i].id)]]

\* The assignments objects of up to MaxEntries entries over the ids 1..MaxIds,
\* the ids of no guest and of no table among them.
AssignmentMaps ==
    LET entry == (1..MaxIds) \X (1..MaxIds)
    IN  UNION {{es \in [1..n -> entry] :
                   \A j, k \in 1..n : j # k => es[j][1] # es[k][1]} : n \in 0..MaxEntries}

applyOptimizedSeating ==
    /\ \E assignments \in AssignmentMaps :
           /\ storeTables' = updatedTables(storeTables, assignments)
           /\ storeGuests' = updatedGuests(storeGuests, assignments)
    /\ storeOp' = "applyOptimizedSeating"
    /\ UNCHANGED <<conflicts, isRunning, idCounter, callVars, handlerVars>>

\* No call of optimizeSeating is under way.
NoCall ==
    /\ guests = <<>>
    /\ _tables = <<>>
    /\ config = [tableCapacity |-> MaxTableCapacity, knightConfig |-> KnightDisabled,
                 knightGroupNames |-> <<>>]
    /\ pc = "idle"
    /\ processedGroups = <<>>
    /\ knightCandidates = <<>>
    /\ groupIdx = 0
    /\ guestsToSeat = <<>>
    /\ tableAssignments = <<>>
    /\ tableCounter = 0
    /\ assignment = <<>>
    /\ standardTableIds = <<>>
    /\ mergedTableIds = {}
    /\ mergeI = 0
    /\ progress = <<>>
    /\ result = NoResult

InitEmptyStore == InitStore /\ NoCall

\* The seating actions on the store.
NextSeating ==
    \/ addGuest
    \/ importGuests
    \/ addTable
    \/ assignGuestToTable
    \/ unassignGuest
    \/ removeGuest
    \/ removeTable

SpecSeating == InitEmptyStore /\ [][NextSeating]_vars

\* The seating actions and applyOptimizedSeating.
NextApply ==
    \/ addGuest
    \/ addTable
    \/ assignGuestToTable
    \/ removeGuest
    \/ removeTable
    \/ applyOptimizedSeating

SpecApply == InitEmptyStore /\ [][NextApply]_vars

\* The conflict actions on the store.
NextConflicts ==
    \/ addGuest
    \/ addConflict
    \/ removeConflict
    \/ removeGuest

SpecConflicts == InitEmptyStore /\ [][NextConflicts]_vars


\* ------------------------------------------------------------------ handleOptimize
\* StatusBar.handleOptimize for a user who enters a standard capacity and
\* declines knight tables.  optimizeSeating has no await of its own, so the
\* handler runs without a break up to its 200 ms wait.

\* The guests of the store as optimizeSeating reads them (a guest is known
\* to the call by its position).
GuestsOfStore ==
    [i \in 1..Len(storeGuests) |->
        [amount |-> storeGuests[i].amount, side |-> storeGuests[i].side,
         category |-> storeGuests[i].category, groupId |-> storeGuests[i].groupId,
         tableId |-> IF storeGuests[i].tableId = Unset THEN NoTable
                     ELSE storeGuests[i].tableId]]

\* setOptimizationProgress({isRunning: true, ...}) and the call of optimizeSeating.
handleOptimize ==
    /\ hpc = "idle"
    /\ \E standardCapacity \in 1..MaxTableCapacity :
           config' = [tableCapacity |-> standardCapacity, knightConfig |-> KnightDisabled,
                      knightGroupNames |-> <<>>]
    /\ isRunning' = TRUE
    /\ storeOp' = "setOptimizationProgress"
    /\ guests' = GuestsOfStore
    /\ _tables' = storeTables
    /\ guestsAtCall' = [i \in 1..Len(storeGuests) |-> storeGuests[i].id]
    /\ pc' = "start"
    /\ hpc' = "optimizing"
    /\ UNCHANGED <<processedGroups, knightCandidates, groupIdx, guestsToSeat,
                   tableAssignments, tableCounter, assignment, standardTableIds,
                   mergedTableIds, mergeI, progress, result>>
    /\ UNCHANGED <<storeGuests, storeTables, conflicts, idCounter,
                   sortedAlgorithmTables, createdTableIds>>

\* oldTables.forEach(table => removeTable(table.id))
RECURSIVE removeTables(_, _)
removeTables(store, ids) ==
    IF ids = <<>> THEN store
    ELSE removeTables([tables |-> tablesAfterRemove(store.tables, Head(ids)),
                       guests |-> guestsAfterRemove(store.guests, Head(ids))],
                      Tail(ids))

\* for (const algoTable of sortedAlgorithmTables) addTable(capacityToCreate)
RECURSIVE addTables(_, _, _)
addTables(ts, id, capacities) ==
    IF capacities = <<>> THEN ts
    ELSE addTables(tableAdded(ts, id, Head(capacities)), id + 1, Tail(capacities))

\* capacityToCreate: the algorithm's capacity under the safety cap
\* Math.max(standardCapacity, knightConfig.capacity, 50).
capacityToCreate(algoTable) ==
    LET maxAllowedCapacity == Max(Max(config.tableCapacity, 0), 50)
    IN  IF algoTable.capacity > maxAllowedCapacity THEN maxAllowedCapacity
        ELSE algoTable.capacity

\* The old tables are removed and a table is added for every table of the
\* result; then the handler waits.
createTables ==
    /\ hpc = "optimizing"
    /\ pc = "done"
    /\ LET sorted  == SortAscending(result.tables,
                          [i \in 1..Len(result.tables) |-> result.tables[i].id])
           cleared == removeTables([tables |-> storeTables, guests |-> storeGuests],
                                   [i \in 1..Len(storeTables) |-> storeTables[i].id])
       IN  /\ sortedAlgorithmTables' = sorted
           /\ storeGuests' = cleared.guests
           /\ storeTables' =
                  addTables(cleared.tables, generateId,
                            [k \in 1..Len(sorted) |-> capacityToCreate(sorted[k])])
           /\ createdTableIds' = [k \in 1..Len(sorted) |-> idCounter + k]
           /\ idCounter' = idCounter + Len(sorted)
    /\ storeOp' = "addTable"
    /\ hpc' = "waiting"
    /\ UNCHANGED <<conflicts, isRunning, guestsAtCall, callVars>>

\* currentTables.slice(-n): the last n tables, all of them for n = 0.
SliceLast(list, n) ==
    IF n = 0 THEN list ELSE SubSeq(list, Max(Len(list) - n, 0) + 1, Len(list))

\* Object.entries(result.assignments) with the table id that idMapping holds
\* for the temporary id: finalAssignment is filled table by table.
RECURSIVE realAssignments(_, _)
realAssignments(actualTables, k) ==
    IF k > Len(sortedAlgorithmTables) THEN <<>>
    ELSE [j \in 1..Len(sortedAlgorithmTables[k].guests) |->
              <<guestsAtCall[sortedAlgorithmTables[k].guests[j]], actualTables[k].id>>]
         \o realAssignments(actualTables, k + 1)

\* After the wait: the last tables of the store are taken for the created
\* ones and the seating is applied, or the count does not match and the
\* catch block runs.
finishOptimize ==
    /\ hpc = "waiting"
    /\ LET actualTables == SliceLast(storeTables, Len(sortedAlgorithmTables))
       IN  IF Len(actualTables) # Len(sortedAlgorithmTables)
           THEN /\ hpc' = "failed"
                /\ storeOp' = "setOptimizationProgress"
                /\ UNCHANGED <<storeGuests, storeTables>>
           ELSE /\ hpc' = "finished"
                /\ storeOp' = "applyOptimizedSeating"
                /\ storeTables' = updatedTables(storeTables, realAssignments(actualTables, 1))
                /\ storeGuests' = updatedGuests(storeGuests, realAssignments(actualTables, 1))
    /\ isRunning' = FALSE
    /\ UNCHANGED <<conflicts, idCounter, guestsAtCall, sortedAlgorithmTables,
                   createdTableIds, callVars>>

\* The store is filled, handleOptimize runs once, and during its wait the
\* user goes on acting on the store.
NextOptimize ==
    \/ hpc = "idle" /\ Len(storeGuests) < MaxCallGuests /\ addGuest
    \/ hpc = "idle" /\ addTable
    \/ hpc = "idle" /\ assignGuestToTable
    \/ handleOptimize
    \/ Begin
    \/ StandardStart
    \/ WholeFit
    \/ NewTableWhole
    \/ MergeStart
    \/ MergeSkip
    \/ MergeTables
    \/ Finish
    \/ createTables
    \/ hpc = "waiting" /\ addTable
    \/ hpc = "waiting" /\ removeTable
    \/ hpc = "waiting" /\ assignGuestToTable
    \/ hpc = "waiting" /\ removeGuest
    \/ finishOptimize

SpecOptimize == InitEmptyStore /\ [][NextOptimize]_vars

\* The same without the user acting during the wait.
NextOptimizeAlone ==
    \/ hpc = "idle" /\ Len(storeGuests) < MaxCallGuests /\ addGuest
    \/ hpc = "idle" /\ addTable
    \/ hpc = "idle" /\ assignGuestToTable
    \/ handleOptimize
    \/ Begin
    \/ StandardStart
    \/ WholeFit
    \/ NewTableWhole
    \/ MergeStart
    \/ MergeSkip
    \/ MergeTables
    \/ Finish
    \/ createTables
    \/ finishOptimize

SpecOptimizeAlone == InitEmptyStore /\ [][NextOptimizeAlone]_vars


\* ------------------------------------------------------------------ properties
Done == pc = "done"

GuestIds == 1..Len(guests)

\* Number of seats (table, position) at which guest g sits in tables.
SeatCount(tables, g) ==
    Cardinality({<<i, k>> \in (1..Len(tables)) \X (1..MaxGuests + 1) :
                    k <= Len(tables[i].guests) /\ tables[i].guests[k] = g})

\* The groups of the call as grouping and classification return them.
ClassifiedGroups ==
    LET originalGroups == groupGuestsByRelationship(guests)
    IN  [i \in 1..Len(originalGroups) |-> Classify(originalGroups[i])]

KnightPhaseRuns == config.knightConfig.enabled /\ config.knightConfig.count > 0

IsKnightCandidate(group) ==
    KnightPhaseRuns /\ group \in Range(KnightCandidatesOf(ClassifiedGroups))

ConfiguredCapacity(table) ==
    IF table.isKnight THEN config.knightConfig.capacity ELSE config.tableCapacity

KnightTotal == config.knightConfig.count * config.knightConfig.capacity

SeatedAt(tables, Kind(_)) ==
    UNION {Range(tables[i].guests) : i \in {j \in 1..Len(tables) : Kind(tables[j])}}

AtKnightTables == SeatedAt(result.tables, LAMBDA t : t.isKnight)

AtStandardTables == SeatedAt(result.tables, LAMBDA t : ~t.isKnight)

\* C1: when the call returns, every input guest sits at exactly one seat of
\* the returned tables (none missing, none seated twice).
C1_Conservation ==
    Done => \A g \in GuestIds : SeatCount(result.tables, g) = 1

\* C2: in every result the seats taken at a returned table are at most the
\* table's returned capacity (it fails for the empty knight tables of a
\* negative knight capacity, a configuration that C13 wants rejected).
C2_CapacityRespected ==
    Done => \A i \in 1..Len(result.tables) :
                Occupancy(result.tables[i]) <= result.tables[i].capacity

OverConfigured(tables) ==
    {i \in 1..Len(tables) : Occupancy(tables[i]) > ConfiguredCapacity(tables[i])}

OversizedGuests == {g \in GuestIds : AmountOf(g) > config.tableCapacity}

\* C3 as claimed: at most one returned table holds more seats than the
\* capacity configured for its kind.
C3_AtMostOneWidened ==
    Done => Cardinality(OverConfigured(result.tables)) <= 1

OverFilled(tables) == {i \in OverConfigured(tables) : tables[i].guests # <<>>}

\* C3 as amended: a returned table that seats a guest and holds more seats
\* than the capacity configured for its kind is a standard table with exactly
\* one guest, whose amount exceeds tableCapacity; there are at most as many
\* such tables as input guests with amount > tableCapacity.
C3_WidenedOnlyForOversized ==
    Done =>
        /\ \A i \in OverFilled(result.tables) :
               /\ ~result.tables[i].isKnight
               /\ Len(result.tables[i].guests) = 1
               /\ result.tables[i].guests[1] \in OversizedGuests
        /\ Cardinality(OverFilled(result.tables)) <= Cardinality(OversizedGuests)

C3_Witness ==
    /\ Done
    /\ Cardinality(OverConfigured(result.tables)) >= 2
    /\ Len(result.tables) > Cardinality(OverConfigured(result.tables))

\* C4: every group that is no knight candidate and whose size is at most
\* tableCapacity sits, all members, at one returned table of capacity
\* tableCapacity; a call with one such group and no knight tables returns
\* exactly one standard table, which holds the group.
C4_GroupsStayTogether ==
    Done =>
        /\ \A n \in 1..Len(ClassifiedGroups) :
               LET group == ClassifiedGroups[n]
               IN  (~IsKnightCandidate(group) /\ group.size <= config.tableCapacity) =>
                       \E i \in 1..Len(result.tables) :
                           /\ Range(group.guests) \subseteq Range(result.tables[i].guests)
                           /\ result.tables[i].capacity = config.tableCapacity
        /\ ( /\ Len(ClassifiedGroups) = 1
             /\ ~KnightPhaseRuns
             /\ ClassifiedGroups[1].size <= config.tableCapacity )
           => /\ Len(result.tables) = 1
              /\ ~result.tables[1].isKnight
              /\ result.tables[1].guests = ClassifiedGroups[1].guests

C4_Witness ==
    /\ Done
    /\ Len(result.tables) > 1
    /\ \E n \in 1..Len(ClassifiedGroups) :
           /\ Len(ClassifiedGroups[n].guests) = 2
           /\ ~IsKnightCandidate(ClassifiedGroups[n])
           /\ ClassifiedGroups[n].size <= config.tableCapacity
           /\ \E i \in 1..Len(result.tables) :
                  Range(ClassifiedGroups[n].guests) \subseteq Range(result.tables[i].guests)

\* C5: a returned table's capacity differs from the capacity of its kind only
\* if it is a standard table with exactly one guest, whose amount exceeds
\* tableCapacity and equals the table's capacity; every guest with amount >
\* tableCapacity at a standard table sits alone at such a table; a knight
\* table's capacity is never changed.
C5_OversizedRuleOnly ==
    Done =>
        \A i \in 1..Len(result.tables) :
            LET table == result.tables[i]
            IN  /\ table.capacity # ConfiguredCapacity(table) =>
                       /\ ~table.isKnight
                       /\ Len(table.guests) = 1
                       /\ AmountOf(table.guests[1]) > config.tableCapacity
                       /\ AmountOf(table.guests[1]) = table.capacity
                /\ ~table.isKnight =>
                       \A g \in Range(table.guests) \cap OversizedGuests :
                           table.guests = <<g>> /\ table.capacity = AmountOf(g)

C5_Witness ==
    /\ Done
    /\ \E i, j \in 1..Len(result.tables) :
           /\ result.tables[i].capacity > config.tableCapacity
           /\ ~result.tables[i].isKnight
           /\ ~result.tables[j].isKnight
           /\ result.tables[j].capacity = config.tableCapacity
           /\ result.tables[j].guests # <<>>


StrictMode == KnightPhaseRuns /\ config.knightGroupNames # <<>>

RequestedGroups == SelectSeq(ClassifiedGroups, LAMBDA g : g.isRequestedForKnight)

RECURSIVE SumSizes(_)
SumSizes(groups) == IF groups = <<>> THEN 0 ELSE Head(groups).size + SumSizes(Tail(groups))

AllAtKnightTables(group) ==
    /\ Range(group.guests) \subseteq AtKnightTables
    /\ Range(group.guests) \cap AtStandardTables = {}

\* C6 as claimed: in strict mode a named group sits entirely at knight tables
\* whenever count x capacity is at least the group's size.
C6_KnightPriority ==
    (Done /\ StrictMode) =>
        \A n \in 1..Len(RequestedGroups) :
            KnightTotal >= RequestedGroups[n].size => AllAtKnightTables(RequestedGroups[n])

\* C6 as amended: in strict mode a named group whose members all have amount
\* 1 sits entirely at knight tables whenever count x capacity is at least the
\* combined size of all the groups that match a supplied name.
C6_KnightPriorityUnitGuests ==
    (Done /\ StrictMode) =>
        \A n \in 1..Len(RequestedGroups) :
            ( /\ \A g \in Range(RequestedGroups[n].guests) : AmountOf(g) = 1
              /\ KnightTotal >= SumSizes(RequestedGroups) )
            => AllAtKnightTables(RequestedGroups[n])

C6_Witness ==
    /\ Done
    /\ StrictMode
    /\ Len(RequestedGroups) = 2
    /\ KnightTotal >= SumSizes(RequestedGroups)
    /\ \E n \in 1..2 :
           /\ Len(RequestedGroups[n].guests) = 2
           /\ \A g \in Range(RequestedGroups[n].guests) : AmountOf(g) = 1
           /\ AllAtKnightTables(RequestedGroups[n])

SingleFriendGroupOfUnits ==
    /\ Len(ClassifiedGroups) = 1
    /\ Range(ClassifiedGroups[1].guests) = GuestIds
    /\ ClassifiedGroups[1].dominantCategory = "friend"
    /\ \A g \in GuestIds : AmountOf(g) = 1

\* C7: in auto mode, for a single friend-dominant group of s guests of amount
\* 1 and a number K = count x capacity < s of knight seats, exactly K guests
\* sit at knight tables and the other s - K guests at standard tables.
C7_KnightOverflow ==
    ( /\ Done
      /\ KnightPhaseRuns
      /\ config.knightGroupNames = <<>>
      /\ SingleFriendGroupOfUnits
      /\ KnightTotal \in 0..(Len(guests) - 1) )
    => /\ Cardinality(AtKnightTables) = KnightTotal
       /\ Cardinality(AtStandardTables) = Len(guests) - KnightTotal
       /\ AtKnightTables \cap AtStandardTables = {}
       /\ \A g \in GuestIds : SeatCount(result.tables, g) = 1

C7_Witness ==
    /\ Done
    /\ KnightPhaseRuns
    /\ config.knightGroupNames = <<>>
    /\ SingleFriendGroupOfUnits
    /\ config.knightConfig.count = 2
    /\ KnightTotal = 2
    /\ Len(guests) = 3
    /\ Cardinality(AtKnightTables) = 2
    /\ Cardinality(AtStandardTables) = 1

UngroupedUnits ==
    /\ ~config.knightConfig.enabled
    /\ \A g \in GuestIds : AmountOf(g) = 1 /\ guests[g].groupId = NoGroup

Occupancies(tables) == [i \in 1..Len(tables) |-> Occupancy(tables[i])]

\* C8: n ungrouped guests of amount 1 and one common side, without knight
\* tables and with tableCapacity c >= 1, get exactly ceil(n/c) standard tables,
\* all full but at most one; three such guests of any sides with c = 2 get two
\* tables that hold 2 and 1.
C8_UngroupedFillGaps ==
    (Done /\ UngroupedUnits /\ config.tableCapacity >= 1) =>
        /\ (\A g, h \in GuestIds : guests[g].side = guests[h].side) =>
               /\ Len(result.tables) =
                      (Len(guests) + config.tableCapacity - 1) \div config.tableCapacity
               /\ \A i \in 1..Len(result.tables) : ~result.tables[i].isKnight
               /\ Cardinality({i \in 1..Len(result.tables) :
                      Occupancy(result.tables[i]) # result.tables[i].capacity}) <= 1
        /\ (Len(guests) = 3 /\ config.tableCapacity = 2) =>
               /\ Len(result.tables) = 2
               /\ Occupancies(result.tables) \in {<<2, 1>>, <<1, 2>>}

C8_Witness ==
    /\ Done
    /\ UngroupedUnits
    /\ Len(guests) = 3
    /\ config.tableCapacity = 2
    /\ guests[1].side # guests[2].side
    /\ guests[3].side = "both"
    /\ mergedTableIds # {}
    /\ Len(result.tables) = 2

ReturnedIds == {result.tables[i].id : i \in 1..Len(result.tables)}

\* C9: in the result, assignments[g] = t.id exactly when g is in t.guests;
\* every value of assignments is the id of a returned table, never of a table
\* removed by a merge, and every key is the id of an input guest.
C9_AssignmentMatchesTables ==
    Done =>
        /\ \A g \in GuestIds : \A i \in 1..Len(result.tables) :
               (g \in DOMAIN result.assignments
                    /\ result.assignments[g] = result.tables[i].id)
               <=> g \in Range(result.tables[i].guests)
        /\ \A g \in DOMAIN result.assignments :
               /\ result.assignments[g] \in ReturnedIds
               /\ result.assignments[g] \notin mergedTableIds
        /\ DOMAIN result.assignments \subseteq GuestIds

C9_Witness ==
    /\ Done
    /\ mergedTableIds # {}
    /\ \E g \in DOMAIN result.assignments :
           /\ assignment[g] \in mergedTableIds
           /\ result.assignments[g] # assignment[g]
           /\ \E i \in 1..Len(result.tables) :
                  /\ result.tables[i].id = result.assignments[g]
                  /\ g \in Range(result.tables[i].guests)

\* C11: no step of the call changes its inputs: the guest array keeps its
\* length, its order and every field of every guest record (tableId and
\* groupId included), and the caller's tables argument stays as it was.
C11_InputsUnchanged ==
    [][guests' = guests /\ _tables' = _tables]_vars

C11_Witness ==
    /\ Done
    /\ _tables # <<>>
    /\ \E g \in GuestIds :
           /\ guests[g].tableId # NoTable
           /\ g \in DOMAIN result.assignments
           /\ TableKey(result.assignments[g]) # guests[g].tableId

Percents == [i \in 1..Len(progress) |-> progress[i].percent]

CallsOf(message) == {i \in 1..Len(progress) : progress[i].message = message}

\* C12: the percentages handed to onProgress never decrease and lie in
\* 0..100; the knight notification is made only in a call whose knight phase
\* runs and before the notification of the standard tables; the notification
\* of the consolidation follows every per-group notification; and the last
\* notification of a finished call is 100.
C12_ProgressOrdered ==
    /\ \A i, j \in 1..Len(progress) : i < j => Percents[i] <= Percents[j]
    /\ \A i \in 1..Len(progress) : Percents[i] \in 0..100
    /\ \A i \in CallsOf("knights") :
           KnightPhaseRuns /\ \A j \in CallsOf("standard") : i < j
    /\ \A i \in CallsOf("merge") : \A j \in CallsOf("split") : j < i
    /\ Done => progress # <<>> /\ Percents[Len(progress)] = 100

C12_Witness ==
    /\ Done
    /\ CallsOf("knights") # {}
    /\ \E i, j \in CallsOf("split") : Percents[i] < Percents[j]
    /\ CallsOf("merge") # {}

InvalidConfiguration ==
    \/ config.tableCapacity <= 0
    \/ config.knightConfig.enabled /\ config.knightConfig.capacity <= 0
    \/ config.knightConfig.count < 0

\* C13: a call with an invalid configuration (a standard capacity <= 0, knight
\* tables enabled with a capacity <= 0, or a negative knight count) creates no
\* table, seats no guest and never returns a result.
C13_InvalidRejected ==
    InvalidConfiguration =>
        /\ tableAssignments = <<>>
        /\ assignment = <<>>
        /\ ~Done

\* The loop guard of the split into a new table (chunk.length === 0: log and
\* break) is never reached: whenever a new table is opened for a part of a
\* group, the filling loop or the safety check before the guard has put a
\* guest into the chunk.  (C14 is about the guard's branch.)
LoopGuardNotReached ==
    (pc = "standard" /\ BestFitIndex = 0 /\ groupSize > config.tableCapacity
        /\ PartialChunk = <<>>)
    => NewTableChunk(guestsToSeat).chunk # <<>>

SeatedIn(tables) == UNION {Range(tables[i].guests) : i \in 1..Len(tables)}

\* C15: whenever the knight loop leaves a candidate group with members not
\* seated (no knight table has space, or no member fits the largest space),
\* exactly those members are appended to the pool as a group with the
\* group's id and dominants and the sum of their amounts as size; and in the
\* result every member of a candidate group sits at a returned table.
C15_LeftoversReturn ==
    [][ /\ (pc = "knight" /\ groupIdx' # groupIdx) =>
              LET left == SelectSeq(guestsToSeat,
                              LAMBDA g : g \notin SeatedIn(tableAssignments'))
              IN  left # <<>> =>
                      processedGroups' =
                          Append(processedGroups,
                              [knightCandidates[groupIdx] EXCEPT
                                  !.guests = left, !.size = getGuestsSize(left)])
        /\ pc' = "done" =>
              \A n \in 1..Len(knightCandidates) :
                  Range(knightCandidates[n].guests) \subseteq SeatedIn(result'.tables)
      ]_vars

AfterKnightSetup == pc \notin {"start", "knightSetup"}

\* C16: in a call with knight tables and at least one supplied name, the
\* knight candidates are exactly the groups flagged isRequestedForKnight, and
\* every guest at a knight table is a member of such a group (also when no
\* group matches a supplied name).
C16_StrictOnlyRequested ==
    StrictMode =>
        /\ AfterKnightSetup => Range(knightCandidates) = Range(RequestedGroups)
        /\ \A i \in 1..Len(tableAssignments) :
               tableAssignments[i].isKnight =>
                   \A g \in Range(tableAssignments[i].guests) :
                       \E n \in 1..Len(RequestedGroups) :
                           g \in Range(RequestedGroups[n].guests)

\* The state right after grouping and classification: processedGroups holds
\* the groups of groupGuestsByRelationship, in its order.
JustGrouped == pc # "start" /\ Len(progress) = 1

GroupsOf(g) == {n \in 1..Len(processedGroups) : g \in Range(processedGroups[n].guests)}

SameGroupId(g, h) ==
    /\ guests[g].groupId # NoGroup
    /\ guests[h].groupId # NoGroup
    /\ Trim(guests[g].groupId) = Trim(guests[h].groupId)

\* C17: the groups returned by groupGuestsByRelationship partition the input:
\* every guest is in exactly one group, and two guests share a group exactly
\* if both have a groupId and the trimmed groupIds are equal (so a guest
\* without groupId is alone in its group).
C17_GroupingIsPartition ==
    JustGrouped =>
        /\ \A g \in GuestIds : Cardinality(GroupsOf(g)) = 1
        /\ \A g, h \in GuestIds :
               g # h => ((GroupsOf(g) \cap GroupsOf(h) # {}) <=> SameGroupId(g, h))

\* The position in names of the dominant that the classification gave.
PositionIn(names, name) == CHOOSE k \in 1..Len(names) : names[k] = name

MaximalTally(group, field, names, k) ==
    \A j \in 1..Len(names) :
        Tally(group.guests, field, names[j]) <= Tally(group.guests, field, names[k])

TiedWith(group, field, names, k) ==
    {j \in 1..Len(names) :
        Tally(group.guests, field, names[j]) = Tally(group.guests, field, names[k])}

EarliestWins(group, field, names, name) ==
    LET k == PositionIn(names, name)
    IN  MaximalTally(group, field, names, k)
            /\ \A j \in TiedWith(group, field, names, k) : k <= j

LatestWins(group, field, names, name) ==
    LET k == PositionIn(names, name)
    IN  MaximalTally(group, field, names, k)
            /\ \A j \in TiedWith(group, field, names, k) : j <= k

\* C18 as claimed: a group's dominantSide (dominantCategory) has the maximal
\* amount-weighted tally, and of the sides (categories) that share the maximal
\* tally the earliest of groom, bride, both (family, friend, colleague,
\* other) is taken.
C18_EarliestWinsTie ==
    JustGrouped =>
        \A n \in 1..Len(processedGroups) :
            /\ EarliestWins(processedGroups[n], "side", Sides,
                            processedGroups[n].dominantSide)
            /\ EarliestWins(processedGroups[n], "category", Categories,
                            processedGroups[n].dominantCategory)

\* C18 as amended: a group's dominantSide (dominantCategory) has the maximal
\* amount-weighted tally, and of the sides (categories) that share the maximal
\* tally the latest of groom, bride, both (family, friend, colleague, other)
\* is taken.
C18_LatestWinsTie ==
    JustGrouped =>
        \A n \in 1..Len(processedGroups) :
            /\ LatestWins(processedGroups[n], "side", Sides,
                          processedGroups[n].dominantSide)
            /\ LatestWins(processedGroups[n], "category", Categories,
                          processedGroups[n].dominantCategory)

C18_Witness ==
    /\ JustGrouped
    /\ \E n \in 1..Len(processedGroups) :
           LET group == processedGroups[n]
           IN  /\ Tally(group.guests, "side", "groom") = Tally(group.guests, "side", "bride")
               /\ group.dominantSide = "bride"
               /\ Tally(group.guests, "category", "family")
                      = Tally(group.guests, "category", "colleague")
               /\ Tally(group.guests, "category", "friend")
                      < Tally(group.guests, "category", "family")
               /\ group.dominantCategory = "colleague"

\* A step of the knight loop or of the standard loop that seats guests.
SeatingStep == pc \in {"knight", "standard"} /\ tableAssignments' # tableAssignments

\* The table that the step fills, in the tables after the step.
TargetAfter ==
    tableAssignments'[CHOOSE i \in 1..Len(tableAssignments') :
                          \/ i > Len(tableAssignments)
                          \/ tableAssignments'[i] # tableAssignments[i]]

\* The members of the running group that the step seats, in the group's order.
StepChunk ==
    SelectSeq(guestsToSeat,
        LAMBDA g : g \in SeatedIn(tableAssignments') \ SeatedIn(tableAssignments))

StepLeftOut == SelectSeq(guestsToSeat, LAMBDA g : g \notin SeatedIn(tableAssignments'))

\* C19 as claimed: the members that a step seats are a prefix of the group's
\* members still to seat, and the longest one that fits: the first member
\* left out does not fit the space that the step leaves at the table.
C19_ChunkIsPrefix ==
    [][ SeatingStep =>
            LET k == Len(StepChunk)
            IN  /\ StepChunk = SubSeq(guestsToSeat, 1, k)
                /\ k < Len(guestsToSeat) =>
                       AmountOf(guestsToSeat[k + 1]) > SpaceOf(TargetAfter)
      ]_vars

\* C19 as amended: the members that a step seats are taken in the group's
\* order and join the table's list in that order, at least one is seated,
\* and no member left out fits the space that the step leaves at the table
\* (a member that does not fit is passed over and later members may be seated).
C19_ChunkIsGreedy ==
    [][ SeatingStep =>
            /\ StepChunk # <<>>
            /\ LET n == Len(TargetAfter.guests) - Len(StepChunk)
               IN  /\ n >= 0
                   /\ SubSeq(TargetAfter.guests, n + 1, Len(TargetAfter.guests)) = StepChunk
            /\ \A m \in Range(StepLeftOut) : AmountOf(m) > SpaceOf(TargetAfter)
      ]_vars

C19_Witness ==
    /\ pc \in {"knight", "standard"}
    /\ \E i \in 1..Len(tableAssignments) :
           \E g \in Range(tableAssignments[i].guests) :
               \E h \in Range(guestsToSeat) :
                   h < g /\ guests[h].groupId # NoGroup /\ SameGroupId(g, h)

\* A step of the standard loop that seats all that is left of the group.
WholeGroupStep == pc = "standard" /\ SeatingStep /\ StepChunk = guestsToSeat

\* The tables, before the step, that could take all that is left of the
\* group: no knight table, side-compatible, space >= the group's size.
TakesWholeGroup(i) ==
    /\ ~tableAssignments[i].isKnight
    /\ isSideMatch(tableAssignments[i], processedGroups[groupIdx])
    /\ SpaceOf(tableAssignments[i]) >= getGuestsSize(guestsToSeat)

\* C20: a step of the standard loop that seats all that is left of a group
\* at an existing table takes a table that is no knight table, is
\* side-compatible and has space for the group, with the smallest space of
\* all such tables and the earliest created of those with that space; and a
\* step that opens a new table for all that is left of a group is taken only
\* when no existing table could take it.
C20_WholeGroupBestFit ==
    [][ WholeGroupStep =>
            IF Len(tableAssignments') = Len(tableAssignments)
            THEN \E i \in 1..Len(tableAssignments) :
                     /\ tableAssignments'[i] # tableAssignments[i]
                     /\ TakesWholeGroup(i)
                     /\ \A j \in 1..Len(tableAssignments) :
                            (j # i /\ TakesWholeGroup(j)) =>
                                \/ SpaceOf(tableAssignments[i]) < SpaceOf(tableAssignments[j])
                                \/ /\ SpaceOf(tableAssignments[i]) = SpaceOf(tableAssignments[j])
                                   /\ tableAssignments[i].id < tableAssignments[j].id
            ELSE \A j \in 1..Len(tableAssignments) : ~TakesWholeGroup(j)
      ]_vars

\* A group has just joined table i as a whole although the table j, created
\* before i, could take it too and has more space.
C20_Witness ==
    /\ pc \in {"standard", "mergeStart"}
    /\ groupIdx >= 2
    /\ LET group == processedGroups[groupIdx - 1]
       IN  \E i, j \in 1..Len(tableAssignments) :
               LET table == tableAssignments[i]
                   n     == Len(table.guests) - Len(group.guests)
               IN  /\ j < i
                   /\ ~table.isKnight /\ ~tableAssignments[j].isKnight
                   /\ n > 0
                   /\ SubSeq(table.guests, n + 1, Len(table.guests)) = group.guests
                   /\ isSideMatch(tableAssignments[j], group)
                   /\ SpaceOf(tableAssignments[j]) > SpaceOf(table) + group.size

\* The dominant side of the group, as classified, that each guest of the set
\* is a member of.
DominantSidesOf(set) ==
    LET groups == ClassifiedGroups
    IN  [g \in set |->
            groups[CHOOSE n \in 1..Len(groups) : g \in Range(groups[n].guests)].dominantSide]

StandardTablesOf(tables) == {i \in 1..Len(tables) : ~tables[i].isKnight}

\* C21: in every result a standard table of side groom or bride holds only
\* guests of groups of that dominant side, and a standard table that holds
\* guests of groups of different dominant sides has the side both; a table of
\* side both begins with a guest of a both-dominant group or the call has
\* merged tables.
C21_SidePurity ==
    Done =>
        LET sideOf == DominantSidesOf(SeatedIn(result.tables))
        IN  \A i \in StandardTablesOf(result.tables) :
                LET table == result.tables[i]
                IN  /\ table.side \in {"groom", "bride"} =>
                           \A g \in Range(table.guests) : sideOf[g] = table.side
                    /\ (\E g, h \in Range(table.guests) : sideOf[g] # sideOf[h])
                           => table.side = "both"
                    /\ table.side = "both" =>
                           \/ sideOf[table.guests[1]] = "both"
                           \/ mergedTableIds # {}

C21_Witness ==
    /\ Done
    /\ \E i, j \in StandardTablesOf(result.tables) :
           /\ result.tables[i].side \in {"groom", "bride"}
           /\ \E g, h \in Range(result.tables[i].guests) : GroupsOf(g) # GroupsOf(h)
           /\ result.tables[j].side # result.tables[i].side

\* A step of the split path (the group is larger than tableCapacity) that
\* opens a new table.
SplitOpensTable ==
    /\ pc = "standard"
    /\ getGuestsSize(guestsToSeat) > config.tableCapacity
    /\ Len(tableAssignments') > Len(tableAssignments)

\* The standard tables, before the step, with space > 0 and a side that
\* matches the running group.
OpenForGroup ==
    {i \in StandardTablesOf(tableAssignments) :
        /\ SpaceOf(tableAssignments[i]) > 0
        /\ isSideMatch(tableAssignments[i], processedGroups[groupIdx])}

\* C22 as claimed: the split path opens a new table only when no existing
\* standard table has a matching side and space > 0.
C22_NewTableLastResort ==
    [][SplitOpensTable => OpenForGroup = {}]_vars

\* C22 as amended: the split path opens a new table only when no existing
\* standard table has a matching side and space > 0, or when no member still
\* to seat fits the space of the fullest such table.
C22_NewTableWhenNoneFits ==
    [][ SplitOpensTable =>
            \A i \in OpenForGroup :
                (\A j \in OpenForGroup :
                     Occupancy(tableAssignments[j]) <= Occupancy(tableAssignments[i]))
                => \A m \in Range(guestsToSeat) : AmountOf(m) > SpaceOf(tableAssignments[i])
      ]_vars

\* The split of the running group has opened the last table although an
\* older table with the same side, which holds members of the group, has
\* space.
C22_Witness ==
    /\ pc = "standard"
    /\ \E i \in 1..(Len(tableAssignments) - 1) :
           LET last  == tableAssignments[Len(tableAssignments)]
               table == tableAssignments[i]
               group == processedGroups[groupIdx]
           IN  /\ ~last.isKnight /\ ~table.isKnight
               /\ table.side = last.side
               /\ SpaceOf(table) > 0
               /\ Range(last.guests) \subseteq Range(group.guests)
               /\ Range(table.guests) \cap Range(group.guests) # {}
               /\ guestsToSeat # <<>>

\* A step of the consolidation that changes the tables.
MergeStep == pc = "merge" /\ tableAssignments' # tableAssignments

IdsOf(tables) == {tables[i].id : i \in 1..Len(tables)}

PositionOfId(id) == CHOOSE k \in 1..Len(standardTableIds) : standardTableIds[k] = id

\* The step merges table idB into the anchor idA by the rule of C23.
MergesByRule(idA, idB) ==
    LET tableA == TableOf(idA)
        tableB == TableOf(idB)
        after  == tableAssignments'[TableIndex(tableAssignments', idA)]
    IN  /\ idA # idB
        /\ ~tableA.isKnight /\ ~tableB.isKnight
        /\ idA \notin mergedTableIds /\ idB \notin mergedTableIds
        /\ PositionOfId(idA) < PositionOfId(idB)
        /\ Occupancy(tableA) < tableA.capacity
        /\ Occupancy(tableA) + Occupancy(tableB) <= tableA.capacity
        /\ mergedTableIds' = mergedTableIds \cup {idB}
        /\ IdsOf(tableAssignments') = IdsOf(tableAssignments) \ {idB}
        /\ after.guests = tableA.guests \o tableB.guests
        /\ after.side = "both"
        /\ after.capacity = tableA.capacity

\* C23: a step of the consolidation that changes the tables merges a table B
\* into an anchor A that is not full, neither of them merged away, B after A
\* in the order of ascending occupancy, with occupancy(A) + occupancy(B) <=
\* capacity(A); afterwards A holds the guests of A and of B, has the side both
\* and its capacity, and B is gone; no merged table is returned.
C23_MergeRule ==
    [][ /\ MergeStep =>
              \E idA, idB \in IdsOf(tableAssignments) : MergesByRule(idA, idB)
        /\ pc' = "done" => IdsOf(result'.tables) \cap mergedTableIds = {}
      ]_vars

C23_Witness ==
    /\ Done
    /\ mergedTableIds # {}
    /\ \E i \in StandardTablesOf(result.tables) :
           /\ result.tables[i].side = "both"
           /\ Len(result.tables[i].guests) >= 2
           /\ Occupancy(result.tables[i]) <= result.tables[i].capacity

\* The tables of the seating phases whose guests the table holds: the
\* working map assignment, which the consolidation leaves alone, names for
\* every guest the table at which it was seated.
Origins(table) == {assignment[g] : g \in Range(table.guests)}

\* C24: in the consolidation and in the result every table holds the guests
\* of at most two tables of the seating phases; a merge joins an anchor and a
\* table that both hold their own guests only (neither has absorbed a table)
\* and that are not merged away.
C24_OneMergePerAnchor ==
    [][ /\ pc' \in {"merge", "done"} =>
              \A i \in 1..Len(tableAssignments') :
                  /\ Cardinality(Origins(tableAssignments'[i])) <= 2
                  /\ tableAssignments'[i].id \notin mergedTableIds'
        /\ MergeStep =>
              \E idA, idB \in IdsOf(tableAssignments) \ mergedTableIds :
                  /\ idA # idB
                  /\ mergedTableIds' = mergedTableIds \cup {idB}
                  /\ Origins(TableOf(idA)) = {idA}
                  /\ Origins(TableOf(idB)) = {idB}
                  /\ Origins(tableAssignments'[TableIndex(tableAssignments', idA)])
                         = {idA, idB}
        /\ pc' = "done" =>
              \A i \in 1..Len(result'.tables) :
                  Cardinality(Origins(result'.tables[i])) <= 2
      ]_vars

\* A returned table holds the guests of two tables and has room for a
\* further returned table, which it has not absorbed.
C24_Witness ==
    /\ Done
    /\ \E i, j \in StandardTablesOf(result.tables) :
           /\ i # j
           /\ Cardinality(Origins(result.tables[i])) = 2
           /\ Occupancy(result.tables[i]) + Occupancy(result.tables[j])
                  <= result.tables[i].capacity

IsFull(table) == Occupancy(table) = table.capacity

\* C25: no step of the consolidation changes or removes a knight table or a
\* full standard table (so a table that is full when the consolidation begins
\* stays as it is), and the result returns the tables as the consolidation
\* left them.
C25_KnightAndFullUntouched ==
    [][ /\ pc = "merge" =>
              \A i \in 1..Len(tableAssignments) :
                  (tableAssignments[i].isKnight \/ IsFull(tableAssignments[i])) =>
                      \E k \in 1..Len(tableAssignments') :
                          tableAssignments'[k] = tableAssignments[i]
        /\ pc' = "done" => result'.tables = tableAssignments
      ]_vars

\* A merge has happened next to a full table of the seating phases.
C25_Witness ==
    /\ Done
    /\ mergedTableIds # {}
    /\ \E i \in StandardTablesOf(result.tables) :
           /\ IsFull(result.tables[i])
           /\ Cardinality(Origins(result.tables[i])) = 1
           /\ result.tables[i].side # "both"

\* A step of the knight while loop or of the standard while loop.
LoopStep == pc \in {"knight", "standard"}

\* The groups that the running for-of loop walks over.
LoopGroups == IF pc = "knight" THEN knightCandidates ELSE processedGroups

\* The iteration seats a member that was waiting and the while loop goes on
\* with fewer members.
SeatsWaitingMember ==
    /\ pc' = pc
    /\ groupIdx' = groupIdx
    /\ Len(guestsToSeat') < Len(guestsToSeat)
    /\ \E g \in Range(guestsToSeat) :
           /\ g \notin Range(guestsToSeat')
           /\ SeatCount(tableAssignments, g) = 0
           /\ SeatCount(tableAssignments', g) = 1

\* The while loop of the running group has ended: the for-of loop moves on.
LeavesLoop ==
    /\ groupIdx' = groupIdx + 1
    /\ pc' = pc => guestsToSeat' = LoopGroups[groupIdx'].guests

\* C26: every iteration of the knight loop and of the standard loop either
\* seats a waiting member and shortens the waiting list or ends the loop of its
\* group, while the list of groups walked over keeps its length: both loops
\* end for every guest list and configuration.
C26_Terminates ==
    [][LoopStep =>
          /\ groupIdx \in 1..Len(LoopGroups)
          /\ pc' = pc => Len(LoopGroups') = Len(LoopGroups)
          /\ SeatsWaitingMember \/ LeavesLoop]_vars

\* A call with a table capacity that is not positive has returned after
\* seating several guests.
C26_Witness ==
    /\ Done
    /\ config.tableCapacity <= 0
    /\ Cardinality({g \in GuestIds : SeatCount(result.tables, g) = 1}) >= 2

\* ------------------------------------------------------------------ store properties
\* The tables whose assignedGuests holds the guest id.
TablesSeating(id) ==
    {i \in 1..Len(storeTables) : id \in Range(storeTables[i].assignedGuests)}

\* The positions at which assignedGuests of any table holds the guest id.
SeatsOf(id) ==
    {<<i, k>> \in (1..Len(storeTables)) \X (1..MaxIds) :
        k <= Len(storeTables[i].assignedGuests) /\ storeTables[i].assignedGuests[k] = id}

\* C27: a guest has tableId t exactly if t is a table of the store whose
\* assignedGuests holds the guest; every id in an assignedGuests is a guest
\* of the store and is held once, by one table.
C27_SeatingConsistent ==
    /\ \A g \in Range(storeGuests) :
           /\ g.tableId # Unset =>
                  /\ HasId(storeTables, g.tableId)
                  /\ g.id \in Range(Find(storeTables, g.tableId).assignedGuests)
           /\ \A i \in TablesSeating(g.id) : g.tableId = storeTables[i].id
    /\ \A i \in 1..Len(storeTables) :
           \A id \in Range(storeTables[i].assignedGuests) :
               /\ HasId(storeGuests, id)
               /\ Cardinality(SeatsOf(id)) = 1

\* A guest has been removed and a table has just been removed while another
\* table seats a guest.
C27_Witness ==
    /\ storeOp = "removeTable"
    /\ idCounter = MaxIds
    /\ Len(storeGuests) = 1
    /\ Len(storeTables) = 1
    /\ storeTables[1].assignedGuests # <<>>

\* C28: after applyOptimizedSeating every guest's tableId is unset or names
\* a table of the store whose assignedGuests holds the guest, and every id in
\* an assignedGuests is a guest of the store.
C28_NoDanglingSeat ==
    storeOp = "applyOptimizedSeating" =>
        /\ \A g \in Range(storeGuests) :
               g.tableId # Unset =>
                   /\ HasId(storeTables, g.tableId)
                   /\ g.id \in Range(Find(storeTables, g.tableId).assignedGuests)
        /\ \A i \in 1..Len(storeTables) :
               \A id \in Range(storeTables[i].assignedGuests) : HasId(storeGuests, id)

\* The pairs of conflicts that join the two ids, in either order.
PairsOf(id1, id2) ==
    {k \in 1..Len(conflicts) :
        conflicts[k] = <<id1, id2>> \/ conflicts[k] = <<id2, id1>>}

\* C29: for the guests a and b of the store, b is in a.conflictsWith exactly
\* if a is in b.conflictsWith, exactly if the pair occurs in conflicts, and
\* then once; no conflictsWith and no pair of conflicts holds an id that is
\* not a guest of the store.
C29_ConflictsConsistent ==
    /\ \A a, b \in Range(storeGuests) :
           /\ (b.id \in Range(a.conflictsWith)) <=> (a.id \in Range(b.conflictsWith))
           /\ (b.id \in Range(a.conflictsWith)) <=> (PairsOf(a.id, b.id) # {})
           /\ Cardinality(PairsOf(a.id, b.id)) <= 1
    /\ \A g \in Range(storeGuests) :
           \A id \in Range(g.conflictsWith) : HasId(storeGuests, id)
    /\ \A k \in 1..Len(conflicts) :
           HasId(storeGuests, conflicts[k][1]) /\ HasId(storeGuests, conflicts[k][2])

HandlerEnded == hpc \in {"finished", "failed"}

\* The guest ids that the result seats at its k-th table (in id order).
ResultGuestsOf(k) ==
    {guestsAtCall[p] : p \in Range(sortedAlgorithmTables[k].guests)}

\* C30: when handleOptimize has ended, isRunning is false and every guest
\* of the result sits at the store table that was created for its table of
\* the result, and that table has the capacity of the result's table.
C30_ApplySafeUnderInterleaving ==
    HandlerEnded =>
        /\ isRunning = FALSE
        /\ \A k \in 1..Len(sortedAlgorithmTables) : \A id \in ResultGuestsOf(k) :
               /\ HasId(storeTables, createdTableIds[k])
               /\ Find(storeTables, createdTableIds[k]).capacity
                      = sortedAlgorithmTables[k].capacity
               /\ id \in Range(Find(storeTables, createdTableIds[k]).assignedGuests)
               /\ HasId(storeGuests, id)
               /\ Find(storeGuests, id).tableId = createdTableIds[k]

====
